---- MODULE Spec2Model ----
(***************************************************************************)
(* deepl-for-slack (src/src/index.ts): the reaction_added handler, the     *)
(* deepl-modal view handler, the DeepL client runDeepL and the static      *)
(* table flagToLangCode.  Every in-flight handler invocation is one slot   *)
(* of the functions below; a handler advances only at its await points.    *)
(***************************************************************************)
EXTENDS Integers, Sequences, FiniteSets, TLC

VARIABLES
  pc,         \* pc[e]: where the handler invocation of event e is suspended
  event,      \* event[e]: the payload delivered to the handler
  locals,     \* locals[e]: the handler's local bindings (lang, text, translatedText)
  responses,  \* responses[e]: what each awaited outbound call returned to e
  calls,      \* calls[e]: the outbound calls e has issued, in order
  posts,      \* posts[e]: the messages Slack accepted from e
  rTrigger,   \* resolver harness: the reaction name under resolution
  rLang       \* resolver harness: the resolved value, Pending before resolution

vars == <<pc, event, locals, responses, calls, posts, rTrigger, rLang>>

-----------------------------------------------------------------------------
(* Bounds *)

NumEvents == 2

Events == 1..NumEvents

-----------------------------------------------------------------------------
(* JavaScript values.  Strings are TLA+ strings; the non-string values the   *)
(* handlers can meet are kept apart from every string the model uses.        *)

Undefined == "<undefined>"
Null == "<null>"
Pending == "<pending>"

\* The members of Object.prototype a property read on an object literal
\* reaches when the literal has no own property of that name.
ObjectPrototypeKeys ==
  {"constructor", "__proto__", "toString", "valueOf", "hasOwnProperty"}

InheritedValue(name) == "<Object.prototype." \o name \o ">"

\* ToBoolean: undefined, null and the empty string are falsy.
Truthy(v) == v \notin {Undefined, Null, ""}

CharAt(s, i) == SubSeq(s, i, i)

UpperOf ==
  [a |-> "A", b |-> "B", c |-> "C", d |-> "D", e |-> "E", f |-> "F", g |-> "G",
   h |-> "H", i |-> "I", j |-> "J", k |-> "K", l |-> "L", m |-> "M", n |-> "N",
   o |-> "O", p |-> "P", q |-> "Q", r |-> "R", s |-> "S", t |-> "T", u |-> "U",
   v |-> "V", w |-> "W", x |-> "X", y |-> "Y", z |-> "Z"]

LowerLetters == DOMAIN UpperOf
UpperLetters == {UpperOf[c] : c \in LowerLetters}

LowerOfChar(c) ==
  IF c \in UpperLetters THEN CHOOSE l \in LowerLetters : UpperOf[l] = c ELSE c

RECURSIVE toUpperCase(_)
toUpperCase(s) ==
  IF s = "" THEN ""
  ELSE (IF Head(s) \in LowerLetters THEN UpperOf[Head(s)] ELSE Head(s))
       \o toUpperCase(Tail(s))

RECURSIVE toLowerCase(_)
toLowerCase(s) ==
  IF s = "" THEN "" ELSE LowerOfChar(Head(s)) \o toLowerCase(Tail(s))

\* The two-letter shorthand pattern: exactly two letters.
IsTwoLetter(s) ==
  /\ Len(s) = 2
  /\ \A i \in 1..2 : CharAt(s, i) \in LowerLetters \cup UpperLetters

StartsWithFlag(s) == Len(s) > 5 /\ SubSeq(s, 1, 5) = "flag-"
BareCode(s) == SubSeq(s, 6, Len(s))

-----------------------------------------------------------------------------
(* The static table. *)

flagToLangCode ==
    "flag-us" :> "EN-US" @@ "us" :> "EN-US" @@ "flag-gb" :> "EN-GB" @@
    "gb" :> "EN-GB" @@ "flag-au" :> "EN-GB" @@ "flag-ca" :> "EN-US" @@
    "flag-jp" :> "JA" @@ "jp" :> "JA" @@ "flag-cn" :> "ZH-HANS" @@
    "cn" :> "ZH-HANS" @@ "flag-tw" :> "ZH-HANT" @@ "tw" :> "ZH-HANT" @@
    "flag-hk" :> "ZH-HANT" @@ "hk" :> "ZH-HANT" @@ "flag-kr" :> "KO" @@
    "kr" :> "KO" @@ "flag-de" :> "DE" @@ "de" :> "DE" @@
    "flag-at" :> "DE" @@ "flag-ch" :> "DE" @@ "flag-fr" :> "FR" @@
    "fr" :> "FR" @@ "flag-es" :> "ES" @@ "es" :> "ES" @@
    "flag-mx" :> "ES" @@ "flag-pt" :> "PT-PT" @@ "pt" :> "PT-PT" @@
    "flag-br" :> "PT-BR" @@ "br" :> "PT-BR" @@ "flag-it" :> "IT" @@
    "it" :> "IT" @@ "flag-nl" :> "NL" @@ "nl" :> "NL" @@
    "flag-pl" :> "PL" @@ "pl" :> "PL" @@ "flag-ru" :> "RU" @@
    "ru" :> "RU" @@ "flag-tr" :> "TR" @@ "tr" :> "TR" @@
    "flag-id" :> "ID" @@ "id" :> "ID" @@ "flag-ua" :> "UK" @@
    "ua" :> "UK" @@ "flag-se" :> "SV" @@ "se" :> "SV" @@
    "flag-dk" :> "DA" @@ "dk" :> "DA" @@ "flag-fi" :> "FI" @@
    "fi" :> "FI" @@ "flag-no" :> "NB" @@ "no" :> "NB" @@
    "flag-cz" :> "CS" @@ "cz" :> "CS" @@ "flag-gr" :> "EL" @@
    "gr" :> "EL" @@ "flag-hu" :> "HU" @@ "hu" :> "HU" @@
    "flag-ro" :> "RO" @@ "ro" :> "RO" @@ "flag-bg" :> "BG" @@
    "bg" :> "BG" @@ "flag-sk" :> "SK" @@ "sk" :> "SK" @@
    "flag-si" :> "SL" @@ "si" :> "SL" @@ "flag-ee" :> "ET" @@
    "ee" :> "ET" @@ "flag-lv" :> "LV" @@ "lv" :> "LV" @@
    "flag-lt" :> "LT" @@ "lt" :> "LT" @@ "flag-sa" :> "AR" @@
    "sa" :> "AR" @@ "flag-ae" :> "AR" @@ "ae" :> "AR"

\* Faulty variant: the name is lower-cased before the property read.
Lookup_caseInsensitive(table, name) ==
  LET n == toLowerCase(name) IN
  IF n \in DOMAIN table THEN table[n]
  ELSE IF name \in ObjectPrototypeKeys THEN InheritedValue(name)
  ELSE Undefined

\* table[name] as JavaScript evaluates it: the own property, else the
\* property inherited from Object.prototype, else undefined.
Lookup(table, name) ==
  IF name \in DOMAIN table THEN table[name]
  ELSE IF name \in ObjectPrototypeKeys THEN InheritedValue(name)
  ELSE Undefined

\* reactionName.match(/QP/i): "q" followed by "p", in either case, anywhere.
MatchesIgnore(reactionName) ==
  \E i \in 1..(Len(reactionName) - 1) :
    /\ CharAt(reactionName, i) \in {"q", "Q"}
    /\ CharAt(reactionName, i + 1) \in {"p", "P"}

\* Faulty variant: a "flag-" prefix is stripped before the table is read.
resolve_stripFlag(reactionName) ==
  IF MatchesIgnore(reactionName) THEN Undefined
  ELSE LET name == IF StartsWithFlag(reactionName)
                   THEN BareCode(reactionName) ELSE reactionName
           lang == Lookup(flagToLangCode, name)
       IN  IF ~Truthy(lang) THEN Undefined ELSE lang

\* Faulty variant: a two-letter name the table lacks is upper-cased and passed on.
resolve_twoLetterFallback(reactionName) ==
  IF MatchesIgnore(reactionName) THEN Undefined
  ELSE LET lang == Lookup(flagToLangCode, reactionName)
       IN  IF Truthy(lang) THEN lang
           ELSE IF IsTwoLetter(reactionName) THEN toUpperCase(reactionName)
           ELSE Undefined

\* Lines 198-206 of the reaction handler: the value of lang with which the
\* handler goes on, or Undefined when it returns early.
resolve(reactionName) ==
  IF MatchesIgnore(reactionName) THEN Undefined
  ELSE LET lang == Lookup(flagToLangCode, reactionName)
       IN  IF ~Truthy(lang) THEN Undefined ELSE lang

-----------------------------------------------------------------------------
(* The DeepL client. *)

VersionSuffix == "\n\n[2026/1/15 VER]"

\* The body of the axios.post call of runDeepL.
DeepLRequest(text, targetLang) ==
  [api |-> "deepl.translate", text |-> <<text>>, target_lang |-> targetLang]

\* axios.post rejects when no response arrives and when the status is not 2xx.
AxiosRejects(result) ==
  \/ result.kind = "transport_error"
  \/ ~(result.status >= 200 /\ result.status < 300)

\* Faulty variant: the last entry of translations is returned, not the first.
runDeepL_lastEntry(result) ==
  IF AxiosRejects(result)
  THEN [threw |-> FALSE, value |-> Null]
  ELSE IF result.hasTranslations /\ Len(result.translations) > 0
       THEN [threw |-> FALSE,
             value |-> result.translations[Len(result.translations)].text
                         \o VersionSuffix]
       ELSE [threw |-> FALSE, value |-> Null]

\* Faulty variant: translations is not tested before its first entry is read through
\* optional chaining, so an absent entry is rendered as "undefined".
runDeepL_noLengthCheck(result) ==
  IF AxiosRejects(result)
  THEN [threw |-> FALSE, value |-> Null]
  ELSE IF result.hasTranslations /\ Len(result.translations) > 0
       THEN [threw |-> FALSE,
             value |-> result.translations[1].text \o VersionSuffix]
       ELSE [threw |-> FALSE, value |-> "undefined" \o VersionSuffix]

\* Faulty variant: no try/catch around axios.post, so its rejection leaves runDeepL.
runDeepL_noCatch(result) ==
  IF AxiosRejects(result)
  THEN [threw |-> TRUE, value |-> Null]
  ELSE IF result.hasTranslations /\ Len(result.translations) > 0
       THEN [threw |-> FALSE,
             value |-> result.translations[1].text \o VersionSuffix]
       ELSE [threw |-> FALSE, value |-> Null]

\* runDeepL from the moment its axios.post settles: what it hands its caller.
\* threw is whether an exception leaves runDeepL, value is the value returned.
runDeepL(result) ==
  IF AxiosRejects(result)
  THEN [threw |-> FALSE, value |-> Null]
  ELSE IF result.hasTranslations /\ Len(result.translations) > 0
       THEN [threw |-> FALSE,
             value |-> result.translations[1].text \o VersionSuffix]
       ELSE [threw |-> FALSE, value |-> Null]

-----------------------------------------------------------------------------
(* What the outside world can deliver and answer. *)

Reactions == {"jp", "flag-br", "QP-custom", "xx", "constructor"}

\* The e-th delivery concerns a message, a channel and a user of its own, so
\* that a value leaking from one invocation into another shows.
ChannelOf(e) == "C" \o ToString(e)
TsOf(e) == "170000000" \o ToString(e) \o ".000100"
UserOf(e) == "U" \o ToString(e)

Items(e) ==
  { [type |-> "message", channel |-> ChannelOf(e), ts |-> TsOf(e)],
    [type |-> "file", channel |-> Undefined, ts |-> Undefined] }

ReactionEvents(e) ==
  { [type |-> "reaction_added", reaction |-> r, item |-> it] :
      r \in Reactions, it \in Items(e) }

ViewSubmissions(e) ==
  { [type |-> "view_submission", text |-> t, lang |-> l, user |-> UserOf(e)] :
      t \in {Null, "", "Hi"}, l \in {Null, "DE"} }

NoEvent == [type |-> "none"]
NoResponse == [kind |-> "none"]

RepliesResults ==
  { [kind |-> "error", hasMessages |-> FALSE, messages |-> <<>>],
    [kind |-> "ok", hasMessages |-> FALSE, messages |-> <<>>],
    [kind |-> "ok", hasMessages |-> TRUE, messages |-> <<>>],
    [kind |-> "ok", hasMessages |-> TRUE, messages |-> <<[text |-> ""]>>],
    [kind |-> "ok", hasMessages |-> TRUE,
     messages |-> <<[text |-> "Hello"], [text |-> "a reply"]>>] }

Translation(t) == [detected_source_language |-> "EN", text |-> t]

DeepLResults ==
  { [kind |-> "transport_error", status |-> 0, hasTranslations |-> FALSE,
     translations |-> <<>>],
    [kind |-> "http", status |-> 456, hasTranslations |-> FALSE,
     translations |-> <<>>],
    [kind |-> "http", status |-> 200, hasTranslations |-> FALSE,
     translations |-> <<>>],
    [kind |-> "http", status |-> 200, hasTranslations |-> TRUE,
     translations |-> <<>>],
    [kind |-> "http", status |-> 200, hasTranslations |-> TRUE,
     translations |-> <<Translation("Bonjour")>>],
    [kind |-> "http", status |-> 200, hasTranslations |-> TRUE,
     translations |-> <<Translation("Hallo"), Translation("Salut")>>] }

PostResults == {[kind |-> "ok"], [kind |-> "error"]}

-----------------------------------------------------------------------------
(* The handlers. *)

NoLocals == [lang |-> Undefined, text |-> Undefined, translatedText |-> Undefined]
NoResponses == [replies |-> NoResponse, deepl |-> NoResponse, post |-> NoResponse]

RepliesRequest(ev) ==
  [api |-> "conversations.replies", channel |-> ev.item.channel,
   ts |-> ev.item.ts, inclusive |-> TRUE]

\* Faulty variant: the reply is not threaded under the reacted-to message.
ReactionPost_noThread(ev, translatedText) ==
  [api |-> "chat.postMessage", channel |-> ev.item.channel,
   thread_ts |-> Undefined, text |-> translatedText]

\* chat.postMessage of the reaction handler.
ReactionPost(ev, translatedText) ==
  [api |-> "chat.postMessage", channel |-> ev.item.channel,
   thread_ts |-> ev.item.ts, text |-> translatedText]

\* Faulty variant: the message carries the translation alone.
ViewPost_translationOnly(ev, text, lang, translatedText) ==
  [api |-> "chat.postMessage", channel |-> ev.user, thread_ts |-> Undefined,
   text |-> translatedText]

\* chat.postMessage of the view handler.
ViewPost(ev, text, lang, translatedText) ==
  [api |-> "chat.postMessage", channel |-> ev.user, thread_ts |-> Undefined,
   text |-> "Translating \"" \o text \o "\" to " \o lang \o "...\n\n> "
            \o translatedText]

\* Faulty variant: lang is one module-level binding, holding what some invocation
\* wrote to it.
HandlerLang_shared(e) ==
  locals[CHOOSE x \in Events :
           Truthy(locals[x].lang) /\ \A y \in Events : Truthy(locals[y].lang) => x <= y].lang

\* The binding of lang the handler of e reads: a local of that invocation.
HandlerLang(e) == locals[e].lang

Finish(e, outcome) == pc' = [pc EXCEPT ![e] = outcome]

\* reaction_added is delivered: the handler runs to its first await.
ReactionAdded(e) ==
  /\ pc[e] = "idle"
  /\ \E ev \in ReactionEvents(e) :
       /\ event' = [event EXCEPT ![e] = ev]
       /\ IF ev.item.type = "message" /\ Truthy(resolve(ev.reaction))
          THEN /\ locals' = [locals EXCEPT ![e].lang = resolve(ev.reaction)]
               /\ calls' = [calls EXCEPT ![e] = Append(@, RepliesRequest(ev))]
               /\ pc' = [pc EXCEPT ![e] = "fetching"]
          ELSE /\ Finish(e, "done")
               /\ UNCHANGED <<locals, calls>>
  /\ UNCHANGED <<responses, posts, rTrigger, rLang>>

\* conversations.replies settles.
ReactionRepliesReturn(e) ==
  /\ pc[e] = "fetching"
  /\ \E replies \in RepliesResults :
       /\ responses' = [responses EXCEPT ![e].replies = replies]
       /\ IF replies.kind = "error"
          THEN /\ Finish(e, "rejected")
               /\ UNCHANGED <<locals, calls>>
          ELSE IF /\ replies.hasMessages
                  /\ Len(replies.messages) > 0
                  /\ Truthy(replies.messages[1].text)
               THEN /\ locals' = [locals EXCEPT
                                    ![e].text = replies.messages[1].text]
                    /\ calls' = [calls EXCEPT ![e] = Append(@,
                         DeepLRequest(replies.messages[1].text, HandlerLang(e)))]
                    /\ pc' = [pc EXCEPT ![e] = "translating"]
               ELSE /\ Finish(e, "done")
                    /\ UNCHANGED <<locals, calls>>
  /\ UNCHANGED <<event, posts, rTrigger, rLang>>

\* The axios.post of runDeepL settles in the reaction handler.
ReactionDeepLReturn(e) ==
  /\ pc[e] = "translating"
  /\ event[e].type = "reaction_added"
  /\ \E result \in DeepLResults :
       LET r == runDeepL(result) IN
       /\ responses' = [responses EXCEPT ![e].deepl = result]
       /\ IF r.threw
          THEN /\ Finish(e, "rejected")
               /\ UNCHANGED <<locals, calls>>
          ELSE /\ locals' = [locals EXCEPT ![e].translatedText = r.value]
               /\ IF Truthy(r.value)
                  THEN /\ calls' = [calls EXCEPT ![e] = Append(@,
                            ReactionPost(event[e], r.value))]
                       /\ pc' = [pc EXCEPT ![e] = "posting"]
                  ELSE /\ Finish(e, "done")
                       /\ UNCHANGED calls
  /\ UNCHANGED <<event, posts, rTrigger, rLang>>

\* chat.postMessage settles (either handler: it is the last statement of both).
PostReturn(e) ==
  /\ pc[e] = "posting"
  /\ \E result \in PostResults :
       /\ responses' = [responses EXCEPT ![e].post = result]
       /\ IF result.kind = "ok"
          THEN /\ posts' = [posts EXCEPT ![e] = Append(@, calls[e][Len(calls[e])])]
               /\ Finish(e, "done")
          ELSE /\ Finish(e, "rejected")
               /\ UNCHANGED posts
  /\ UNCHANGED <<event, locals, calls, rTrigger, rLang>>

\* view_submission of deepl-modal is delivered: ack, then run to the first
\* outbound await.
ViewSubmission(e) ==
  /\ pc[e] = "idle"
  /\ \E ev \in ViewSubmissions(e) :
       /\ event' = [event EXCEPT ![e] = ev]
       /\ IF Truthy(ev.text) /\ Truthy(ev.lang)
          THEN /\ locals' = [locals EXCEPT ![e].text = ev.text, ![e].lang = ev.lang]
               /\ calls' = [calls EXCEPT ![e] = Append(@, DeepLRequest(ev.text, ev.lang))]
               /\ pc' = [pc EXCEPT ![e] = "translating"]
          ELSE /\ locals' = [locals EXCEPT ![e].text = ev.text, ![e].lang = ev.lang]
               /\ Finish(e, "done")
               /\ UNCHANGED calls
  /\ UNCHANGED <<responses, posts, rTrigger, rLang>>

\* The axios.post of runDeepL settles in the view handler.
ViewDeepLReturn(e) ==
  /\ pc[e] = "translating"
  /\ event[e].type = "view_submission"
  /\ \E result \in DeepLResults :
       LET r == runDeepL(result) IN
       /\ responses' = [responses EXCEPT ![e].deepl = result]
       /\ IF r.threw
          THEN /\ Finish(e, "rejected")
               /\ UNCHANGED <<locals, calls>>
          ELSE /\ locals' = [locals EXCEPT ![e].translatedText = r.value]
               /\ IF Truthy(r.value)
                  THEN /\ calls' = [calls EXCEPT ![e] = Append(@,
                            ViewPost(event[e], locals[e].text, HandlerLang(e), r.value))]
                       /\ pc' = [pc EXCEPT ![e] = "posting"]
                  ELSE /\ Finish(e, "done")
                       /\ UNCHANGED calls
  /\ UNCHANGED <<event, posts, rTrigger, rLang>>

\* app.start: no event delivered yet.
NoHandlerRunning ==
  /\ pc = [e \in Events |-> "idle"]
  /\ event = [e \in Events |-> NoEvent]
  /\ locals = [e \in Events |-> NoLocals]
  /\ responses = [e \in Events |-> NoResponses]
  /\ calls = [e \in Events |-> <<>>]
  /\ posts = [e \in Events |-> <<>>]

Init ==
  /\ NoHandlerRunning
  /\ rTrigger = ""
  /\ rLang = Pending

\* One step of the invocation handling event e.
Step(e) ==
  \/ ReactionAdded(e)
  \/ ReactionRepliesReturn(e)
  \/ ReactionDeepLReturn(e)
  \/ ViewSubmission(e)
  \/ ViewDeepLReturn(e)
  \/ PostReturn(e)

Next == \E e \in Events : Step(e)

Spec == Init /\ [][Next]_vars

\* The outbound call e awaits settles and the handler resumes; the
\* translation call of event 1 is left out: it may hang for ever.
Settle(e) ==
  \/ ReactionRepliesReturn(e)
  \/ PostReturn(e)
  \/ e # 1 /\ (ReactionDeepLReturn(e) \/ ViewDeepLReturn(e))

\* Every outbound call eventually settles, except that the translation call
\* of event 1 may never do so.  (At most one disjunct of Settle(e) is enabled
\* at a time, so this is weak fairness of each of them.)
FairSpec == Spec /\ \A e \in Events : WF_vars(Settle(e))

-----------------------------------------------------------------------------
(* The resolver on its own: one reaction name, resolved once. *)

Triggers ==
  LET keys == DOMAIN flagToLangCode IN
    keys
    \cup {toUpperCase(k) : k \in keys}
    \cup {BareCode(k) : k \in {x \in keys : StartsWithFlag(x)}}
    \cup Reactions
    \cup {"qp", "Qp", "XX", "zz", "flag-zz", "__proto__", "thumbsup"}

ResolveInit ==
  /\ NoHandlerRunning
  /\ rTrigger \in Triggers
  /\ rLang = Pending

Resolve ==
  /\ rLang = Pending
  /\ rLang' = resolve(rTrigger)
  /\ UNCHANGED <<pc, event, locals, responses, calls, posts, rTrigger>>

ResolveNext == Resolve

ResolveSpec == ResolveInit /\ [][ResolveNext]_vars

-----------------------------------------------------------------------------
(* Claims about the resolver. *)

Resolved == rLang # Pending

\* C1: every key of flagToLangCode resolves to exactly the code the table
\* gives for it, and every name matching the ignore pattern /QP/i resolves to
\* "no mapping".
C1_TableAndIgnore ==
  Resolved =>
    /\ rTrigger \in DOMAIN flagToLangCode => rLang = flagToLangCode[rTrigger]
    /\ MatchesIgnore(rTrigger) => rLang = Undefined

C1_Witness == rTrigger = "flag-au" /\ rLang = "EN-GB"

\* C3 as stated: "flag-xx" resolves like the bare "xx", and a two-letter code
\* resolves the same in lower and in upper case.
C3_Original ==
  Resolved =>
    /\ StartsWithFlag(rTrigger) /\ IsTwoLetter(BareCode(rTrigger))
         => rLang = resolve(BareCode(rTrigger))
    /\ IsTwoLetter(rTrigger) => rLang = resolve(toUpperCase(rTrigger))

\* C3, amended: when "flag-xx" and "xx" are both keys of the table they
\* resolve to the same code; a "flag-xx" key whose bare code is no key
\* resolves while the bare code does not; the lookup is case-sensitive, so a
\* key spelled in upper case resolves to "no mapping".
C3_Amended ==
  Resolved =>
    LET keys == DOMAIN flagToLangCode IN
    /\ StartsWithFlag(rTrigger) /\ rTrigger \in keys /\ BareCode(rTrigger) \in keys
         => Truthy(rLang) /\ rLang = resolve(BareCode(rTrigger))
    /\ StartsWithFlag(rTrigger) /\ rTrigger \in keys /\ BareCode(rTrigger) \notin keys
         => Truthy(rLang) /\ resolve(BareCode(rTrigger)) = Undefined
    /\ rTrigger \notin keys /\ toLowerCase(rTrigger) \in keys
         => rLang = Undefined
    /\ rTrigger \in {"flag-jp", "jp"} => rLang = "JA"
    /\ rTrigger \in {"flag-br", "br"} => rLang = "PT-BR"

C3_Witness == rTrigger = "flag-br" /\ rLang = "PT-BR" /\ resolve("br") = rLang

-----------------------------------------------------------------------------
(* Claims about the handlers. *)

IsReaction(e) == event[e].type = "reaction_added"
IsView(e) == event[e].type = "view_submission"
Settled(e) == pc[e] \in {"done", "rejected"}
InFlight(e) == pc[e] \in {"fetching", "translating", "posting"}

ApiNames(cs) == [i \in 1..Len(cs) |-> cs[i].api]
PostCalls(e) == {i \in 1..Len(calls[e]) : calls[e][i].api = "chat.postMessage"}
DeepLCalls(e) == {i \in 1..Len(calls[e]) : calls[e][i].api = "deepl.translate"}

GotDeepL(e) == responses[e].deepl # NoResponse
GotReplies(e) == responses[e].replies # NoResponse
GotPost(e) == responses[e].post # NoResponse

\* The endpoint answered 2xx with at least one translation.
DeepLSucceeded(result) ==
  /\ result.kind = "http"
  /\ result.status \in 200..299
  /\ result.hasTranslations
  /\ result.translations # <<>>

\* Transport failure, non-2xx status, or an empty or missing translations list.
DeepLFailed(result) ==
  \/ result.kind = "transport_error"
  \/ result.status \notin 200..299
  \/ ~result.hasTranslations
  \/ result.translations = <<>>

NonEmpty(v) == v # Null /\ v # Undefined /\ v # ""

StartsWith(s, prefix) ==
  Len(s) >= Len(prefix) /\ SubSeq(s, 1, Len(prefix)) = prefix

TwoLetterNoKey(e) ==
  /\ IsReaction(e)
  /\ event[e].item.type = "message"
  /\ IsTwoLetter(event[e].reaction)
  /\ event[e].reaction \notin DOMAIN flagToLangCode

\* C2 as stated: a two-letter reaction that is no key of the table resolves
\* to itself in upper case and the handler goes on to fetch and translate.
C2_Original ==
  \A e \in Events :
    TwoLetterNoKey(e) =>
      /\ locals[e].lang = toUpperCase(event[e].reaction)
      /\ calls[e] # <<>>

\* C2, amended: a two-letter reaction that is no key of the table resolves to
\* "no mapping": the handler ends at once, with no outbound call.
C2_Amended ==
  \A e \in Events :
    TwoLetterNoKey(e) =>
      /\ locals[e].lang = Undefined
      /\ calls[e] = <<>>
      /\ pc[e] = "done"

C2_Witness ==
  \E e \in Events :
    IsReaction(e) /\ event[e].reaction = "xx" /\ event[e].item.type = "message"
      /\ pc[e] = "done"

\* C4 as stated: on a 2xx answer with a non-empty translations list runDeepL
\* returns the first entry's text unchanged.
C4_Original ==
  \A e \in Events :
    GotDeepL(e) /\ DeepLSucceeded(responses[e].deepl) =>
      locals[e].translatedText = responses[e].deepl.translations[1].text

\* C4, amended: on a 2xx answer with a non-empty translations list runDeepL
\* returns the first entry's text followed by "\n\n[2026/1/15 VER]".
C4_Amended ==
  \A e \in Events :
    GotDeepL(e) /\ DeepLSucceeded(responses[e].deepl) =>
      locals[e].translatedText =
        responses[e].deepl.translations[1].text \o "\n\n[2026/1/15 VER]"

C4_Witness ==
  \E e \in Events :
    /\ GotDeepL(e)
    /\ Len(responses[e].deepl.translations) = 2
    /\ locals[e].translatedText = "Hallo\n\n[2026/1/15 VER]"

\* C5: when the translation call ends in a transport failure, a non-2xx
\* answer or an empty or missing translations list, runDeepL returns null
\* without raising, and the handler (either one) posts nothing.
C5_FailureIsNullAndSilent ==
  \A e \in Events :
    GotDeepL(e) /\ DeepLFailed(responses[e].deepl) =>
      /\ locals[e].translatedText = Null
      /\ pc[e] = "done"
      /\ PostCalls(e) = {}
      /\ posts[e] = <<>>

C5_Witness ==
  \E e, f \in Events :
    /\ IsReaction(e) /\ GotDeepL(e) /\ responses[e].deepl.status = 456
    /\ IsView(f) /\ GotDeepL(f) /\ responses[f].deepl.kind = "transport_error"
    /\ pc[e] = "done" /\ pc[f] = "done"

\* C6: a reaction on a message item that resolves to a language code, whose
\* fetched first message has text and whose translation succeeds, makes
\* exactly the calls fetch, translate, post in that order; the post goes to
\* the channel of the reacted-to message, threaded under it, and carries the
\* translated text; at most one message is ever accepted for the event.
C6_OneThreadedReply ==
  \A e \in Events :
    IsReaction(e) =>
      /\ \E n \in 0..3 :
           ApiNames(calls[e]) =
             SubSeq(<<"conversations.replies", "deepl.translate",
                      "chat.postMessage">>, 1, n)
      /\ Len(posts[e]) <= 1
      /\ ( /\ event[e].item.type = "message"
           /\ event[e].reaction \in DOMAIN flagToLangCode
           /\ ~MatchesIgnore(event[e].reaction)
           /\ GotReplies(e)
           /\ responses[e].replies.kind = "ok"
           /\ responses[e].replies.hasMessages
           /\ responses[e].replies.messages # <<>>
           /\ NonEmpty(responses[e].replies.messages[1].text)
           /\ GotDeepL(e)
           /\ DeepLSucceeded(responses[e].deepl)
           => /\ Len(calls[e]) = 3
              /\ calls[e][1] =
                   [api |-> "conversations.replies",
                    channel |-> event[e].item.channel,
                    ts |-> event[e].item.ts, inclusive |-> TRUE]
              /\ calls[e][2] =
                   [api |-> "deepl.translate",
                    text |-> <<responses[e].replies.messages[1].text>>,
                    target_lang |-> flagToLangCode[event[e].reaction]]
              /\ calls[e][3].api = "chat.postMessage"
              /\ calls[e][3].channel = event[e].item.channel
              /\ calls[e][3].thread_ts = event[e].item.ts
              /\ StartsWith(calls[e][3].text,
                            responses[e].deepl.translations[1].text)
              /\ calls[e][3].text = locals[e].translatedText
              /\ (GotPost(e) /\ responses[e].post.kind = "ok"
                    => posts[e] = <<calls[e][3]>>) )

C6_Witness ==
  \E e \in Events :
    /\ IsReaction(e) /\ event[e].reaction = "jp" /\ pc[e] = "done"
    /\ Len(posts[e]) = 1
    /\ posts[e][1].channel = "C2"
    /\ posts[e][1].thread_ts = "1700000002.000100"
    /\ StartsWith(posts[e][1].text, "Bonjour")

\* C7: a reaction that matches the ignore pattern or is no key of the table,
\* or whose item is not a message, makes the handler end with no outbound
\* call at all.
C7_NoOutboundCalls ==
  \A e \in Events :
    /\ IsReaction(e)
    /\ \/ event[e].item.type # "message"
       \/ MatchesIgnore(event[e].reaction)
       \/ event[e].reaction \notin DOMAIN flagToLangCode
    => calls[e] = <<>> /\ pc[e] = "done"

\* C8: the view handler calls the translation client iff text and lang are
\* both non-empty; a successful translation leads to exactly one post, to the
\* submitting user, whose text holds the original text, the language and the
\* translation; an empty field or a failed translation leads to no post.
C8_ModalSubmission ==
  \A e \in Events :
    IsView(e) =>
      /\ (DeepLCalls(e) # {}) <=> (NonEmpty(event[e].text) /\ NonEmpty(event[e].lang))
      /\ Cardinality(DeepLCalls(e)) <= 1
      /\ Len(posts[e]) <= 1
      /\ GotDeepL(e) /\ DeepLSucceeded(responses[e].deepl)
           => /\ Len(calls[e]) = 2
              /\ calls[e][1] = [api |-> "deepl.translate",
                                text |-> <<event[e].text>>,
                                target_lang |-> event[e].lang]
              /\ calls[e][2].api = "chat.postMessage"
              /\ calls[e][2].channel = event[e].user
              /\ calls[e][2].text =
                   "Translating \"" \o event[e].text \o "\" to " \o event[e].lang
                   \o "...\n\n> " \o locals[e].translatedText
              /\ (GotPost(e) /\ responses[e].post.kind = "ok"
                    => posts[e] = <<calls[e][2]>>)
      /\ \/ ~NonEmpty(event[e].text)
         \/ ~NonEmpty(event[e].lang)
         \/ (GotDeepL(e) /\ DeepLFailed(responses[e].deepl))
         => PostCalls(e) = {} /\ posts[e] = <<>>

C8_Witness ==
  \E e \in Events :
    /\ IsView(e) /\ pc[e] = "done"
    /\ posts[e] = <<[api |-> "chat.postMessage", channel |-> "U2",
                     thread_ts |-> Undefined,
                     text |-> "Translating \"Hi\" to DE...\n\n> Hallo\n\n[2026/1/15 VER]"]>>

-----------------------------------------------------------------------------
(* Concurrency and failure absorption. *)

NoOutcome == [calls |-> <<>>, posts |-> <<>>, pc |-> "done"]

\* The reaction handler run on its own, start to end, on event ev with the
\* answers r to its outbound calls.
ReactionAlone(ev, r) ==
  IF ev.item.type # "message" \/ ~Truthy(resolve(ev.reaction)) THEN NoOutcome
  ELSE
    LET c1 == <<RepliesRequest(ev)>> IN
    IF r.replies.kind = "error"
    THEN [calls |-> c1, posts |-> <<>>, pc |-> "rejected"]
    ELSE IF ~(/\ r.replies.hasMessages
              /\ Len(r.replies.messages) > 0
              /\ Truthy(r.replies.messages[1].text))
    THEN [calls |-> c1, posts |-> <<>>, pc |-> "done"]
    ELSE
      LET c2 == Append(c1, DeepLRequest(r.replies.messages[1].text,
                                        resolve(ev.reaction)))
          t == runDeepL(r.deepl)
          post == ReactionPost(ev, t.value)
      IN
      IF t.threw THEN [calls |-> c2, posts |-> <<>>, pc |-> "rejected"]
      ELSE IF ~Truthy(t.value) THEN [calls |-> c2, posts |-> <<>>, pc |-> "done"]
      ELSE IF r.post.kind = "ok"
      THEN [calls |-> Append(c2, post), posts |-> <<post>>, pc |-> "done"]
      ELSE [calls |-> Append(c2, post), posts |-> <<>>, pc |-> "rejected"]

\* The view handler run on its own.
ViewAlone(ev, r) ==
  IF ~(Truthy(ev.text) /\ Truthy(ev.lang)) THEN NoOutcome
  ELSE
    LET c1 == <<DeepLRequest(ev.text, ev.lang)>>
        t == runDeepL(r.deepl)
        post == ViewPost(ev, ev.text, ev.lang, t.value)
    IN
    IF t.threw THEN [calls |-> c1, posts |-> <<>>, pc |-> "rejected"]
    ELSE IF ~Truthy(t.value) THEN [calls |-> c1, posts |-> <<>>, pc |-> "done"]
    ELSE IF r.post.kind = "ok"
    THEN [calls |-> Append(c1, post), posts |-> <<post>>, pc |-> "done"]
    ELSE [calls |-> Append(c1, post), posts |-> <<>>, pc |-> "rejected"]

HandledAlone(ev, r) ==
  IF ev.type = "reaction_added" THEN ReactionAlone(ev, r) ELSE ViewAlone(ev, r)

Slot(e) == <<pc[e], event[e], locals[e], responses[e], calls[e], posts[e]>>

\* Every settled event made the calls, got the posts and ended the way its
\* handler would have, run alone on the same event and answers.
C9_SameAsAlone ==
  \A e \in Events :
    Settled(e) =>
      [calls |-> calls[e], posts |-> posts[e], pc |-> pc[e]]
        = HandledAlone(event[e], responses[e])

\* A step touches the state of one event only.
C9_OneSlotPerStep ==
  Cardinality({e \in Events : Slot(e)' # Slot(e)}) <= 1

\* C9: under any interleaving each event's outcome is that of the event
\* handled alone, no step of one handler touches another's state, and no
\* event other than 1 (whose translation call may hang for ever) stays in
\* flight for ever, provided its own outbound calls return.
C9_Independent ==
  /\ []C9_SameAsAlone
  /\ [][C9_OneSlotPerStep]_vars
  /\ \A e \in Events \ {1} : []<>(pc[e] = "idle" \/ Settled(e))

C9_Witness ==
  \E e \in Events \ {1} :
    /\ pc[1] = "translating"
    /\ IsReaction(1) /\ locals[1].lang = "JA"
    /\ IsReaction(e) /\ locals[e].lang = "PT-BR"
    /\ pc[e] = "done"
    /\ Len(posts[e]) = 1

ReactionFailure(e) ==
  \/ GotReplies(e) /\ responses[e].replies.kind = "error"
  \/ GotDeepL(e) /\ DeepLFailed(responses[e].deepl)
  \/ GotPost(e) /\ responses[e].post.kind = "error"

\* C10 as stated: whichever outbound call of the reaction handler fails, the
\* handler ends without an error leaving it and nothing is posted.
C10_Original ==
  \A e \in Events :
    IsReaction(e) /\ ReactionFailure(e) => pc[e] = "done" /\ posts[e] = <<>>

\* C10, amended: whichever outbound call of the reaction handler fails, no
\* reply is posted for that event and every other event is still served; a
\* failed translation call is absorbed (the handler ends normally), while a
\* failed message-history fetch or message post leaves the handler as a
\* rejection, and nothing else does.
C10_Amended ==
  \A e \in Events :
    IsReaction(e) =>
      /\ ReactionFailure(e) =>
           /\ Settled(e)
           /\ posts[e] = <<>>
           /\ \A f \in Events \ {e} : ~Settled(f) => ENABLED Step(f)
      /\ GotDeepL(e) /\ DeepLFailed(responses[e].deepl) => pc[e] = "done"
      /\ pc[e] = "rejected" <=>
           \/ GotReplies(e) /\ responses[e].replies.kind = "error"
           \/ GotPost(e) /\ responses[e].post.kind = "error"

C10_Witness ==
  \E e, f \in Events :
    /\ IsReaction(e) /\ pc[e] = "rejected" /\ responses[e].post.kind = "error"
    /\ IsReaction(f) /\ pc[f] = "rejected" /\ responses[f].replies.kind = "error"

====
